---- MODULE Spec2Model ----
(***************************************************************************)
(* The streaming core of the dictation widget: the useDeepgram hook (the   *)
(* WebSocket connection, the pending audio queue and the transcript        *)
(* accumulator) driven by the useAudioRecorder hook's audio chunks and by  *)
(* the browser's WebSocket events, and the App component that toggles a    *)
(* recording session and stops it after a period of silence.               *)
(*                                                                         *)
(* Every handler of the source is one action.  The browser is the          *)
(* environment: it opens, fails and closes sockets and delivers messages.  *)
(* A failed connection fires its error event and its close event in one    *)
(* task, so nothing runs between the two handlers; `dispatching` holds the  *)
(* socket whose close handler is still to run.  The render that follows a  *)
(* handler, and the effect it runs, are part of the handler's action.      *)
(***************************************************************************)
EXTENDS Integers, Sequences, FiniteSets, TLC

\* ------------------------------------------------------------------ bounds
MaxSockets == 2        \* WebSocket objects constructed in a run
MaxChunks == 3         \* non-empty audio blobs passed to sendAudio in a run
MaxCaptureChunks == 1  \* the same, in the runs that include the recorder
MaxEvents == 3         \* inbound messages delivered since the last reset
MaxTime == 1           \* ticks of the clock read by Date.now()
MaxRecorders == 1      \* captures requested or recording at once
MaxSilenceTimeout == 1 \* largest silence timeout a run is configured with
MaxTimers == 2         \* timer ids in use at once

\* --------------------------------------------------------------- constants
NoSocket == 0        \* socketRef.current = null
CloseStream == 0     \* the JSON control message {type: "CloseStream"}

\* One more socket than MaxSockets exists for the runs that reconnect once more.
WideSockets == MaxSockets + 1
Sockets == 1..WideSockets
Chunks == 1..MaxChunks

NoTimer == 0         \* silenceTimerRef.current = null

\* settings.silenceTimeout, in seconds; 0 disables the auto-stop
SilenceTimeouts == 0..MaxSilenceTimeout
TimerIds == 1..MaxTimers

\* The values the settings panel and the shortcut recorder hand to
\* updateSettings.
SelectOptions == {0, 1, 2, 3, 5}
Shortcuts == {"Ctrl+Shift+R", "Alt+S"}

\* localStorage.getItem of a key that has no item
NoItem == <<>>

NoError == "null"
ConnFailedMsg == "Connection to transcription service failed."
CtorErrorMsg == "SyntaxError"
MicErrorMsg == "Microphone access denied or not available."

\* Texts are sequences of characters; " " is the only whitespace used.
Texts == { <<>>, <<" ">>, <<"a">>, <<"b">> }

\* An inbound frame: unparsable JSON, JSON without a transcript alternative,
\* or a Results message with a transcript string and a finality flag.
Messages ==
  { [kind |-> "malformed", transcript |-> <<>>, is_final |-> FALSE],
    [kind |-> "unrelated", transcript |-> <<>>, is_final |-> FALSE] }
  \cup [kind : {"results"}, transcript : Texts, is_final : BOOLEAN]

VARIABLES
  \* useDeepgram
  apiKey,              \* "" or a key: the hook's argument, fixed for the run
  connectionState,     \* "closed" | "connecting" | "connected" | "error"
  realtimeTranscript,  \* accumulated final transcripts
  error,               \* connection error message or NoError
  lastSpeechTime,      \* time of the last non-blank transcript
  socketRef,           \* the socket the hook holds, or NoSocket
  audioQueue,          \* chunks buffered while the socket connects
  \* the browser's WebSocket objects
  readyState,          \* per socket: "NONE" (not constructed), "CONNECTING", ...
  wire,                \* per socket: what socket.send was given, in order
  mustFail,            \* sockets closed before their handshake completed
  dispatching,         \* socket whose error event ran and close event is next
  \* useAudioRecorder
  isRecording,
  hasPermission,
  recorderError,
  mediaRecorderRef,    \* TRUE iff mediaRecorderRef.current is set
  streamRef,           \* TRUE iff streamRef.current is set
  acquiring,           \* getUserMedia promises not yet settled
  liveRecorders,       \* MediaRecorder objects in state "recording"
  finalBlobs,          \* stopped recorders whose last dataavailable is due
  recorderInactive,    \* TRUE iff the ref'd recorder stopped when its track ended
  \* App
  isRecordingRef,      \* isRecordingRef.current
  lastTranscriptRef,   \* lastTranscriptRef.current
  silenceTimerRef,     \* silenceTimerRef.current: a timer id or NoTimer
  silenceTimeout,      \* settings.silenceTimeout
  autoCopyPaste,       \* settings.autoCopyPaste
  \* useSettings
  shortcutEnabled,     \* settings.shortcutEnabled
  shortcut,            \* settings.shortcut
  stored,              \* the localStorage item "wispr-settings", or NoItem
  \* the browser's timers
  timers,              \* per id: time left, captured closure and whether it was
                       \* scheduled before the latest start (history), or NotPending
  \* the clock
  now,
  \* history (not program state)
  produced,            \* number of non-empty blobs the recorder has produced
  passed,              \* per chunk: where sendAudio found the hook, or "none"
  openedAt,            \* per socket: `produced` at its handshake, or -1
  finals,              \* texts of the final events appended since the reset
  nEvents,             \* messages delivered since the last reset
  nInterim,            \* interim events with a transcript since the reset
  discarded,           \* TRUE iff the user's last reset cleared a transcript
  rescheduled,         \* TRUE iff a pending timer was replaced by a new one
  quiet,               \* time since the last non-blank transcript event or start
  nStops,              \* runs of stopRecordingAndCopy past its guard since start
  stoppedBy,           \* what stopped the last session: "none", "toggle", "timer"
  copied,              \* texts given to the clipboard's writeText since the start
  expected,            \* the defaults overridden by every update since the
                       \* install or the last reset, in order
  lastOp               \* the last settings operation: "none", "update",
                       \* "reset", "mount"

dgVars == <<apiKey, connectionState, realtimeTranscript, error, lastSpeechTime,
            socketRef, audioQueue>>
wsVars == <<readyState, wire, mustFail, dispatching>>
recVars == <<isRecording, hasPermission, recorderError, mediaRecorderRef,
             streamRef, acquiring, liveRecorders, finalBlobs, recorderInactive>>
histVars == <<produced, passed, openedAt, finals, nEvents, nInterim,
              discarded>>
appVars == <<isRecordingRef, lastTranscriptRef, silenceTimerRef, timers,
             rescheduled>>
setVars == <<shortcutEnabled, shortcut, stored, expected, lastOp>>
sessVars == <<silenceTimeout, quiet, nStops, stoppedBy, autoCopyPaste, copied,
              setVars>>
vars == <<dgVars, wsVars, recVars, now, histVars, appVars, sessVars>>

NotPassed == [st |-> "none", sock |-> NoSocket]
NotPending == [left |-> -1, rec |-> FALSE, copy |-> FALSE, stale |-> FALSE]

\* { ...prev, ...updates }
Merge(prev, updates) ==
  [k \in DOMAIN prev \cup DOMAIN updates |->
     IF k \in DOMAIN updates THEN updates[k] ELSE prev[k]]

DEFAULT_SETTINGS ==
  [shortcutEnabled |-> TRUE, shortcut |-> "Ctrl+Shift+R",
   autoCopyPaste |-> FALSE, silenceTimeout |-> 2]

\* The keys of a settings object, in the order JSON.stringify writes them.
SettingsKeys ==
  <<"shortcutEnabled", "shortcut", "autoCopyPaste", "silenceTimeout">>

Digits == <<"0", "1", "2", "3", "4", "5", "6", "7", "8", "9">>

\* The JSON literal of the value v of key k, as a sequence of characters and
\* words: true or false for a boolean, the quoted text for a string, the
\* numeral for a number.
JsonLiteral(k, v) ==
  CASE k \in {"shortcutEnabled", "autoCopyPaste"} ->
         IF v THEN <<"true">> ELSE <<"false">>
    [] k = "shortcut" -> <<"\"", v, "\"">>
    [] k = "silenceTimeout" -> <<Digits[v + 1]>>

\* JSON.stringify of a settings object: its members in key order.
Stringify(s) ==
  [i \in 1..Len(SettingsKeys) |->
     [key |-> SettingsKeys[i],
      value |-> JsonLiteral(SettingsKeys[i], s[SettingsKeys[i]])]]

ParseLiteral(lit) ==
  IF lit = <<"true">> THEN TRUE
  ELSE IF lit = <<"false">> THEN FALSE
  ELSE IF lit[1] = "\"" THEN lit[2]
  ELSE (CHOOSE n \in 0..9 : Digits[n + 1] = lit[1])

\* JSON.parse of a stored item: the object its members describe.
Parse(item) ==
  [k \in {item[i].key : i \in DOMAIN item} |->
     ParseLiteral(item[CHOOSE i \in DOMAIN item : item[i].key = k].value)]

\* The settings state after the mount effect: the defaults when nothing is
\* stored, else the defaults overridden by the stored object.
loadSettings_IgnoresStored(item) == DEFAULT_SETTINGS

loadSettings(item) ==
  IF item # NoItem THEN Merge(DEFAULT_SETTINGS, Parse(item))
  ELSE DEFAULT_SETTINGS

\* The settings state of useSettings.
settings ==
  [shortcutEnabled |-> shortcutEnabled, shortcut |-> shortcut,
   autoCopyPaste |-> autoCopyPaste, silenceTimeout |-> silenceTimeout]

\* The settings are s and the stored item is item.
SettingsAre(s, item, op) ==
  /\ shortcutEnabled = s.shortcutEnabled
  /\ shortcut = s.shortcut
  /\ autoCopyPaste = s.autoCopyPaste
  /\ silenceTimeout = s.silenceTimeout
  /\ stored = item
  /\ expected = s
  /\ lastOp = op

\* The settings with which the sessions run: the user has picked the
\* silence timeout MaxSilenceTimeout, which updateSettings stored.
Configured == Merge(DEFAULT_SETTINGS, [silenceTimeout |-> MaxSilenceTimeout])

\* The app after its mount, but for the settings.
InitApp ==
  /\ apiKey \in {"", "key"}
  /\ connectionState = "closed"
  /\ realtimeTranscript = <<>>
  /\ error = NoError
  /\ lastSpeechTime = 0
  /\ socketRef = NoSocket
  /\ audioQueue = <<>>
  /\ readyState = [s \in Sockets |-> "NONE"]
  /\ wire = [s \in Sockets |-> <<>>]
  /\ mustFail = {}
  /\ dispatching = NoSocket
  /\ isRecording = FALSE
  /\ hasPermission = FALSE
  /\ recorderError = NoError
  /\ mediaRecorderRef = FALSE
  /\ streamRef = FALSE
  /\ acquiring = 0
  /\ liveRecorders = 0
  /\ finalBlobs = 0
  /\ recorderInactive = FALSE
  /\ now = 0
  /\ produced = 0
  /\ passed = [c \in Chunks |-> NotPassed]
  /\ openedAt = [s \in Sockets |-> -1]
  /\ finals = <<>>
  /\ nEvents = 0
  /\ nInterim = 0
  /\ discarded = FALSE
  /\ isRecordingRef = FALSE
  /\ lastTranscriptRef = <<>>
  /\ silenceTimerRef = NoTimer
  /\ timers = [id \in TimerIds |-> NotPending]
  /\ rescheduled = FALSE
  /\ quiet = 0
  /\ nStops = 0
  /\ stoppedBy = "none"
  /\ copied = <<>>

Init == InitApp /\ SettingsAre(Configured, Stringify(Configured), "update")

\* The first mount after the install: nothing is stored.
InitSettings == InitApp /\ SettingsAre(DEFAULT_SETTINGS, NoItem, "none")

\* ------------------------------------------------------------ pure helpers

\* String.prototype.trim on a text.
RECURSIVE TrimLeft(_)
TrimLeft(t) ==
  IF t # <<>> /\ Head(t) = " " THEN TrimLeft(Tail(t)) ELSE t

RECURSIVE TrimRight(_)
TrimRight(t) ==
  IF t # <<>> /\ t[Len(t)] = " " THEN TrimRight(SubSeq(t, 1, Len(t) - 1)) ELSE t

Trim_KeepsWhitespace(t) == t

Trim(t) == TrimRight(TrimLeft(t))

\* data.channel?.alternatives?.[0]?.transcript is truthy: a non-empty string.
HasTranscript(m) == m.kind = "results" /\ m.transcript # <<>>

\* prev + (prev ? " " : "") + transcript
AppendTranscript_NoSeparator(prev, transcript) == prev \o transcript

AppendTranscript_DropsPrev(prev, transcript) == transcript

AppendTranscript(prev, transcript) ==
  prev \o (IF prev # <<>> THEN <<" ">> ELSE <<>>) \o transcript

\* the setRealtimeTranscript call is guarded by data.is_final
AppendsToTranscript_Always(m) == TRUE

AppendsToTranscript(m) == m.is_final

\* audioQueue.current.forEach((blob) => socket.send(blob))
Flush_Reversed(sent, queue) ==
  sent \o [i \in 1..Len(queue) |-> queue[Len(queue) + 1 - i]]

Flush(sent, queue) == sent \o queue

\* socket.close(): an open or connecting socket starts closing.
ClosedReadyState(rs) ==
  IF rs \in {"CONNECTING", "OPEN"} THEN "CLOSING" ELSE rs

NextSocket == Cardinality({s \in Sockets : readyState[s] # "NONE"}) + 1

Idle == dispatching = NoSocket

\* ------------------------------------------------------------- useDeepgram

\* connectToDeepgram: returns at once when a socket is held; the WebSocket
\* constructor throws on the empty subprotocol an empty apiKey yields.
connectToDeepgram ==
  IF socketRef # NoSocket
    THEN UNCHANGED <<connectionState, error, socketRef, readyState>>
    ELSE IF apiKey = ""
      THEN /\ error' = CtorErrorMsg
           /\ connectionState' = "error"
           /\ UNCHANGED <<socketRef, readyState>>
      ELSE /\ connectionState' = "connecting"
           /\ error' = NoError
           /\ socketRef' = NextSocket
           /\ readyState' = [readyState EXCEPT ![NextSocket] = "CONNECTING"]

\* socket.onopen
onopen(s) ==
  /\ connectionState' = "connected"
  /\ IF Len(audioQueue) > 0
       THEN /\ wire' = [wire EXCEPT ![s] = Flush(wire[s], audioQueue)]
            /\ audioQueue' = <<>>
       ELSE UNCHANGED <<wire, audioQueue>>

\* socket.onmessage
onmessage_ClearsOnNoise(m) ==
  IF m.kind # "malformed" /\ HasTranscript(m)
    THEN /\ lastSpeechTime' =
              IF Trim(m.transcript) # <<>> THEN now ELSE lastSpeechTime
         /\ realtimeTranscript' =
              IF AppendsToTranscript(m)
                THEN AppendTranscript(realtimeTranscript, m.transcript)
                ELSE realtimeTranscript
    ELSE /\ lastSpeechTime' = lastSpeechTime
         /\ realtimeTranscript' = <<>>

onmessage(m) ==
  IF m.kind # "malformed" /\ HasTranscript(m)
    THEN /\ lastSpeechTime' =
              IF Trim(m.transcript) # <<>> THEN now ELSE lastSpeechTime
         /\ realtimeTranscript' =
              IF AppendsToTranscript(m)
                THEN AppendTranscript(realtimeTranscript, m.transcript)
                ELSE realtimeTranscript
    ELSE UNCHANGED <<lastSpeechTime, realtimeTranscript>>

\* socket.onclose
onclose_Reconnects ==
  /\ connectionState' = "connecting"
  /\ socketRef' = NoSocket

onclose_KeepsHandle ==
  /\ connectionState' = "closed"
  /\ socketRef' = socketRef

onclose ==
  /\ connectionState' = "closed"
  /\ socketRef' = NoSocket

\* socket.onerror
onerror_Silent ==
  /\ error' = error
  /\ connectionState' = "error"

onerror ==
  /\ error' = ConnFailedMsg
  /\ connectionState' = "error"

\* The variables disconnectFromDeepgram reads and writes, as one value.
ConnVars ==
  [connectionState |-> connectionState, socketRef |-> socketRef,
   readyState |-> readyState, wire |-> wire, mustFail |-> mustFail]

\* disconnectFromDeepgram, as a function of those variables: CloseStream goes
\* to an open socket, the socket is closed, the handle cleared, the state set.
disconnectFromDeepgram_KeepsHandle(d) ==
  IF d.socketRef # NoSocket
    THEN [connectionState |-> "closed",
          socketRef |-> d.socketRef,
          readyState |-> [d.readyState EXCEPT ![d.socketRef] = ClosedReadyState(@)],
          wire |-> [d.wire EXCEPT ![d.socketRef] =
                      IF d.readyState[d.socketRef] = "OPEN"
                        THEN Append(@, CloseStream) ELSE @],
          mustFail |-> IF d.readyState[d.socketRef] = "CONNECTING"
                         THEN d.mustFail \cup {d.socketRef} ELSE d.mustFail]
    ELSE [d EXCEPT !.connectionState = "closed"]

disconnectFromDeepgram(d) ==
  IF d.socketRef # NoSocket
    THEN [connectionState |-> "closed",
          socketRef |-> NoSocket,
          readyState |-> [d.readyState EXCEPT ![d.socketRef] = ClosedReadyState(@)],
          wire |-> [d.wire EXCEPT ![d.socketRef] =
                      IF d.readyState[d.socketRef] = "OPEN"
                        THEN Append(@, CloseStream) ELSE @],
          mustFail |-> IF d.readyState[d.socketRef] = "CONNECTING"
                         THEN d.mustFail \cup {d.socketRef} ELSE d.mustFail]
    ELSE [d EXCEPT !.connectionState = "closed"]

\* sendAudio
sendAudio_QueuesWhenNotOpen(c) ==
  IF socketRef # NoSocket /\ readyState[socketRef] = "OPEN"
    THEN /\ wire' = [wire EXCEPT ![socketRef] = Append(@, c)]
         /\ UNCHANGED audioQueue
    ELSE /\ audioQueue' = Append(audioQueue, c)
         /\ UNCHANGED wire

sendAudio(c) ==
  IF socketRef # NoSocket /\ readyState[socketRef] = "OPEN"
    THEN /\ wire' = [wire EXCEPT ![socketRef] = Append(@, c)]
         /\ UNCHANGED audioQueue
    ELSE IF socketRef # NoSocket /\ readyState[socketRef] = "CONNECTING"
      THEN /\ audioQueue' = Append(audioQueue, c)
           /\ UNCHANGED wire
      ELSE UNCHANGED <<wire, audioQueue>>

\* resetTranscript
resetTranscript_KeepsTranscript ==
  /\ realtimeTranscript' = realtimeTranscript
  /\ lastSpeechTime' = now

resetTranscript ==
  /\ realtimeTranscript' = <<>>
  /\ lastSpeechTime' = now

\* App.handleAudioData: hands the recorder's blob to sendAudio
handleAudioData(c) == sendAudio(c)

\* -------------------------------------------------------- useAudioRecorder

\* startRecording up to its await of getUserMedia
startRecording ==
  /\ recorderError' = NoError
  /\ acquiring' = acquiring + 1

\* startRecording after the permission was granted: the stream is kept,
\* a MediaRecorder is created and started with a 250 ms timeslice.
startRecordingGranted ==
  /\ hasPermission' = TRUE
  /\ streamRef' = TRUE
  /\ mediaRecorderRef' = TRUE
  /\ liveRecorders' = liveRecorders + 1
  /\ recorderInactive' = FALSE
  /\ isRecording' = TRUE

\* startRecording's catch block
startRecordingDenied ==
  /\ recorderError' = MicErrorMsg
  /\ hasPermission' = FALSE

\* startRecording after the permission was granted when the MediaRecorder
\* cannot be used: the stream is kept in the ref; then the constructor throws
\* (constructed = FALSE), or start(250) does after the recorder was put in
\* its ref.  The catch block runs; nothing stops the stream's tracks.
startRecordingFailed(constructed) ==
  /\ streamRef' = TRUE
  /\ mediaRecorderRef' = (mediaRecorderRef \/ constructed)
  /\ recorderInactive' = IF constructed THEN FALSE ELSE recorderInactive
  /\ startRecordingDenied

\* What mediaRecorderRef.current.stop() can do in a stopRecording closed over
\* isRecording = isRec: on a recorder that is already inactive it raises
\* InvalidStateError in some engines and does nothing in others.
StopThrows(isRec) ==
  IF mediaRecorderRef /\ isRec /\ recorderInactive THEN BOOLEAN ELSE {FALSE}

\* stopRecording as the closure of a render in which isRecording was isRec.
\* A recording MediaRecorder is stopped, which makes its last dataavailable
\* due; the tracks are stopped, the refs cleared and isRecording lowered.
\* When stop() throws, nothing after it runs.
stopRecordingAs(isRec, throws) ==
  IF mediaRecorderRef /\ isRec /\ ~throws
    THEN /\ liveRecorders' =
              IF recorderInactive THEN liveRecorders ELSE liveRecorders - 1
         /\ finalBlobs' = IF recorderInactive THEN finalBlobs ELSE finalBlobs + 1
         /\ recorderInactive' = FALSE
         /\ mediaRecorderRef' = FALSE
         /\ streamRef' = FALSE
         /\ isRecording' = FALSE
    ELSE UNCHANGED <<liveRecorders, finalBlobs, recorderInactive,
                     mediaRecorderRef, streamRef, isRecording>>

\* stopRecording of the current render
stopRecording ==
  \E throws \in StopThrows(isRecording) : stopRecordingAs(isRecording, throws)

\* --------------------------------------------------------------------- App

\* The silence timer as the handlers see it: the ref and the browser's timers.
TimerState == [ref |-> silenceTimerRef, timers |-> timers]

PendingTimers(tm) == {id \in TimerIds : tm[id] # NotPending}

\* The id window.setTimeout returns: one that names no pending timer.
FreeTimers(tm) == TimerIds \ PendingTimers(tm)

\* clearSilenceTimer: clearTimeout of the ref'd timer, and the ref cleared.
clearSilenceTimer(t) ==
  IF t.ref # NoTimer
    THEN [ref |-> NoTimer, timers |-> [t.timers EXCEPT ![t.ref] = NotPending]]
    ELSE t

\* The silence effect after its two ref writes: it returns early when the app
\* is not recording or the timeout is not positive, else it clears the ref'd
\* timer and schedules one that captures the stopRecordingAndCopy of this
\* render, which closes over settings.autoCopyPaste and whose stopRecording
\* closes over isRecording.
silenceEffect_KeepsOldTimer(t, recRef, timeout, rec, copy) ==
  IF ~recRef \/ timeout <= 0
    THEN t
    ELSE LET id == CHOOSE i \in FreeTimers(t.timers) :
                     \A j \in FreeTimers(t.timers) : i <= j
         IN [ref |-> id,
             timers |-> [t.timers EXCEPT ![id] =
                          [left |-> timeout, rec |-> rec, copy |-> copy,
                           stale |-> FALSE]]]

silenceEffect(t, recRef, timeout, rec, copy) ==
  IF ~recRef \/ timeout <= 0
    THEN t
    ELSE LET c == clearSilenceTimer(t)
             id == CHOOSE i \in FreeTimers(c.timers) :
                     \A j \in FreeTimers(c.timers) : i <= j
         IN [ref |-> id,
             timers |-> [c.timers EXCEPT ![id] =
                          [left |-> timeout, rec |-> rec, copy |-> copy,
                           stale |-> FALSE]]]

\* The render that follows a handler, and the silence effect it runs when one
\* of the effect's dependencies changed: the transcript, the timeout, or
\* stopRecordingAndCopy (new whenever isRecording or auto-copy changed).  t, recRef and
\* lastRef are the timer state and the refs as the handler left them.
Render(t, recRef, lastRef) ==
  LET changed == <<realtimeTranscript', silenceTimeout', isRecording',
                     autoCopyPaste'>>
                   # <<realtimeTranscript, silenceTimeout, isRecording,
                       autoCopyPaste>>
      schedules == changed /\ recRef /\ silenceTimeout' > 0
  IN /\ schedules => Cardinality(PendingTimers(t.timers)) < MaxTimers
     /\ isRecordingRef' = recRef
     /\ lastTranscriptRef' = IF changed THEN realtimeTranscript' ELSE lastRef
     /\ LET r == IF changed
                   THEN silenceEffect(t, recRef, silenceTimeout', isRecording',
                                      autoCopyPaste')
                   ELSE t
        IN /\ silenceTimerRef' = r.ref
           /\ timers' = r.timers
     /\ rescheduled' = (rescheduled \/ (schedules /\ PendingTimers(t.timers) # {}))

\* updateSettings: the state becomes { ...prev, ...updates } and that object
\* is stored.
updateSettings(updates) ==
  LET newSettings == Merge(settings, updates) IN
    /\ shortcutEnabled' = newSettings.shortcutEnabled
    /\ shortcut' = newSettings.shortcut
    /\ autoCopyPaste' = newSettings.autoCopyPaste
    /\ silenceTimeout' = newSettings.silenceTimeout
    /\ stored' = Stringify(newSettings)
    /\ expected' = Merge(expected, updates)
    /\ lastOp' = "update"

\* resetSettings: the state becomes the defaults and the item is removed.
resetSettings ==
  /\ shortcutEnabled' = DEFAULT_SETTINGS.shortcutEnabled
  /\ shortcut' = DEFAULT_SETTINGS.shortcut
  /\ autoCopyPaste' = DEFAULT_SETTINGS.autoCopyPaste
  /\ silenceTimeout' = DEFAULT_SETTINGS.silenceTimeout
  /\ stored' = NoItem
  /\ expected' = DEFAULT_SETTINGS
  /\ lastOp' = "reset"

\* What a handler that does not stop leaves alone; t is the timer state.
NoStop(t) ==
  /\ UNCHANGED <<liveRecorders, finalBlobs, recorderInactive, mediaRecorderRef,
                 streamRef, isRecording,
                 connectionState, socketRef, readyState, wire, mustFail,
                 nStops, stoppedBy, realtimeTranscript, silenceTimeout,
                 autoCopyPaste, copied, setVars,
                 isRecordingRef, lastTranscriptRef, rescheduled>>
  /\ silenceTimerRef' = t.ref
  /\ timers' = t.timers

\* settings.autoCopyPaste && finalTranscript
CopiesOnStop(copy, finalTranscript) == copy /\ finalTranscript # <<>>

\* stopRecordingAndCopy of a render in which isRecording was isRec and
\* settings.autoCopyPaste was copy, with the timers as t: nothing when the app
\* is not recording; else the timer is cleared, the flag lowered, the
\* recorder stopped, the connection disconnected and the transcript the ref
\* held given to writeText when auto-copy is on and the text is not empty.
\* The two calls are not guarded: when stopRecording throws, nothing after
\* it is reached.  `by` names the caller in the history.
stopRecordingAndCopy(t, isRec, copy, by) ==
  IF ~isRecordingRef
    THEN NoStop(t)
    ELSE /\ \E throws \in StopThrows(isRec) :
              /\ stopRecordingAs(isRec, throws)
              /\ LET d == IF throws THEN ConnVars
                          ELSE disconnectFromDeepgram(ConnVars) IN
                   /\ connectionState' = d.connectionState
                   /\ socketRef' = d.socketRef
                   /\ readyState' = d.readyState
                   /\ wire' = d.wire
                   /\ mustFail' = d.mustFail
              /\ copied' = IF ~throws /\ CopiesOnStop(copy, lastTranscriptRef)
                             THEN Append(copied, lastTranscriptRef)
                             ELSE copied
         /\ nStops' = nStops + 1
         /\ stoppedBy' = by
         /\ UNCHANGED <<realtimeTranscript, silenceTimeout, autoCopyPaste,
                        setVars>>
         /\ Render(clearSilenceTimer(t), FALSE, lastTranscriptRef)

\* toggleRecording when isRecording is false: the settings panel is closed,
\* the transcript reset, the flag raised, then connectToDeepgram and
\* startRecording up to its await of getUserMedia.
\* t is the timer state.
startSession_WithoutReset(t) ==
  /\ UNCHANGED <<realtimeTranscript, lastSpeechTime>>
  /\ connectToDeepgram
  /\ startRecording
  /\ UNCHANGED <<silenceTimeout, autoCopyPaste, setVars, isRecording>>
  /\ Render(t, TRUE, <<>>)

startSession(t) ==
  /\ resetTranscript
  /\ connectToDeepgram
  /\ startRecording
  /\ UNCHANGED <<silenceTimeout, autoCopyPaste, setVars, isRecording>>
  /\ Render(t, TRUE, <<>>)

\* clearTranscription
clearTranscription ==
  /\ resetTranscript
  /\ UNCHANGED <<silenceTimeout, autoCopyPaste, setVars, isRecording>>
  /\ Render(TimerState, isRecordingRef, <<>>)

\* The callback of the silence timer, captured in a render in which
\* isRecording was isRec and settings.autoCopyPaste was copy; t is the timer
\* state once the timer has fired.
silenceTimerCallback_NeverStops(t, isRec, copy) == NoStop(t)

silenceTimerCallback_Unconditional(t, isRec, copy) ==
  stopRecordingAndCopy(t, isRec, copy, "timer")

silenceTimerCallback(t, isRec, copy) ==
  IF isRecordingRef /\ lastTranscriptRef # <<>>
    THEN stopRecordingAndCopy(t, isRec, copy, "timer")
    ELSE NoStop(t)

\* activeError = recorderError || deepgramError
activeError == IF recorderError # NoError THEN recorderError ELSE error

\* ---------------------------------------------------------------- actions

\* A caller invokes connectToDeepgram; at most maxSockets sockets are built.
Connect(maxSockets) ==
  /\ Idle
  /\ (socketRef = NoSocket /\ apiKey # "") => NextSocket <= maxSockets
  /\ connectToDeepgram
  /\ UNCHANGED <<apiKey, realtimeTranscript, lastSpeechTime, audioQueue, wire,
                 mustFail, dispatching, recVars, now, histVars>>
  /\ UNCHANGED <<appVars, sessVars>>

\* A caller invokes disconnectFromDeepgram.
Disconnect ==
  /\ Idle
  /\ LET d == disconnectFromDeepgram(ConnVars) IN
       /\ connectionState' = d.connectionState
       /\ socketRef' = d.socketRef
       /\ readyState' = d.readyState
       /\ wire' = d.wire
       /\ mustFail' = d.mustFail
  /\ UNCHANGED <<apiKey, realtimeTranscript, error, lastSpeechTime, audioQueue,
                 dispatching, recVars, now, histVars>>
  /\ UNCHANGED <<appVars, sessVars>>

\* A caller invokes resetTranscript.
ResetTranscript ==
  /\ Idle
  /\ resetTranscript
  /\ finals' = <<>>
  /\ nEvents' = 0
  /\ nInterim' = 0
  /\ UNCHANGED <<apiKey, connectionState, error, socketRef, audioQueue, wsVars,
                 recVars, now, produced, passed, openedAt, discarded>>
  /\ UNCHANGED sessVars
  /\ Render(TimerState, isRecordingRef, lastTranscriptRef)

\* The next blob is passed to sendAudio; `passed` notes where it found the hook.
PassChunk ==
  /\ produced' = produced + 1
  /\ sendAudio(produced')
  /\ passed' = [passed EXCEPT ![produced'] =
                  [st |-> connectionState, sock |-> socketRef]]

\* A caller invokes sendAudio with the next blob.
SendAudio ==
  /\ Idle
  /\ produced < MaxChunks
  /\ PassChunk
  /\ UNCHANGED <<apiKey, connectionState, realtimeTranscript, error,
                 lastSpeechTime, socketRef, readyState, mustFail, dispatching,
                 recVars, now, openedAt, finals, nEvents, nInterim, discarded>>
  /\ UNCHANGED <<appVars, sessVars>>

\* recorder.ondataavailable of a recording MediaRecorder: a blob of size 0
\* is not handed on, any other goes to handleAudioData.
DataAvailable(size) ==
  /\ Idle
  /\ liveRecorders > 0
  /\ produced < MaxCaptureChunks
  /\ IF size > 0
       THEN /\ produced' = produced + 1
            /\ handleAudioData(produced')
            /\ passed' = [passed EXCEPT ![produced'] =
                            [st |-> connectionState, sock |-> socketRef]]
       ELSE UNCHANGED <<wire, audioQueue, produced, passed>>
  /\ UNCHANGED <<apiKey, connectionState, realtimeTranscript, error,
                 lastSpeechTime, socketRef, readyState, mustFail, dispatching,
                 recVars, now, openedAt, finals, nEvents, nInterim, discarded>>
  /\ UNCHANGED <<appVars, sessVars>>

\* The last dataavailable of a stopped MediaRecorder, which the browser fires
\* in a task after the stop() call returned: the same handler receives it.
RecorderStopped(size) ==
  /\ Idle
  /\ finalBlobs > 0
  /\ finalBlobs' = finalBlobs - 1
  /\ size > 0 => produced < MaxCaptureChunks
  /\ IF size > 0
       THEN /\ produced' = produced + 1
            /\ handleAudioData(produced')
            /\ passed' = [passed EXCEPT ![produced'] =
                            [st |-> connectionState, sock |-> socketRef]]
       ELSE UNCHANGED <<wire, audioQueue, produced, passed>>
  /\ UNCHANGED <<apiKey, connectionState, realtimeTranscript, error,
                 lastSpeechTime, socketRef, readyState, mustFail, dispatching,
                 isRecording, hasPermission, recorderError, mediaRecorderRef,
                 streamRef, acquiring, liveRecorders, recorderInactive, now,
                 openedAt, finals, nEvents, nInterim, discarded>>
  /\ UNCHANGED <<appVars, sessVars>>

\* The track of the ref'd recorder ends (the microphone is unplugged or
\* revoked): the recorder goes inactive by itself, its last dataavailable
\* becomes due, and the hook, which has no onstop handler, is not told.
RecorderEnded ==
  /\ Idle
  /\ mediaRecorderRef
  /\ ~recorderInactive
  /\ liveRecorders > 0
  /\ liveRecorders' = liveRecorders - 1
  /\ finalBlobs' = finalBlobs + 1
  /\ recorderInactive' = TRUE
  /\ UNCHANGED <<dgVars, wsVars, isRecording, hasPermission, recorderError,
                 mediaRecorderRef, streamRef, acquiring, now, histVars>>
  /\ UNCHANGED <<appVars, sessVars>>

\* The handshake of socket s succeeds: readyState becomes OPEN and the open
\* event runs onopen in the same task.
SocketOpen(s) ==
  /\ Idle
  /\ readyState[s] = "CONNECTING"
  /\ readyState' = [readyState EXCEPT ![s] = "OPEN"]
  /\ onopen(s)
  /\ openedAt' = [openedAt EXCEPT ![s] = produced]
  /\ UNCHANGED <<apiKey, realtimeTranscript, error, lastSpeechTime, socketRef,
                 mustFail, dispatching, recVars, now, produced, passed, finals,
                 nEvents, nInterim, discarded>>
  /\ UNCHANGED <<appVars, sessVars>>

\* A message arrives on the open socket s.
SocketMessage(s, m) ==
  /\ Idle
  /\ readyState[s] = "OPEN"
  /\ nEvents < MaxEvents
  /\ onmessage(m)
  /\ nEvents' = nEvents + 1
  /\ finals' = IF HasTranscript(m) /\ m.is_final
                 THEN Append(finals, m.transcript) ELSE finals
  /\ nInterim' = IF HasTranscript(m) /\ ~m.is_final
                   THEN nInterim + 1 ELSE nInterim
  /\ UNCHANGED <<apiKey, connectionState, error, socketRef, audioQueue, wsVars,
                 recVars, now, produced, passed, openedAt, discarded>>
  /\ quiet' = IF HasTranscript(m) /\ Trim(m.transcript) # <<>> THEN 0 ELSE quiet
  /\ UNCHANGED <<silenceTimeout, nStops, stoppedBy, autoCopyPaste, copied,
                 setVars>>
  /\ Render(TimerState, isRecordingRef, lastTranscriptRef)

\* The connection of socket s fails (handshake refused, network error, or
\* closed before it was established): readyState becomes CLOSED, the error
\* event runs onerror and the close event of the same task is still to come.
SocketError(s) ==
  /\ Idle
  /\ readyState[s] \in {"CONNECTING", "OPEN", "CLOSING"}
  /\ readyState' = [readyState EXCEPT ![s] = "CLOSED"]
  /\ onerror
  /\ dispatching' = s
  /\ mustFail' = mustFail \ {s}
  /\ UNCHANGED <<apiKey, realtimeTranscript, lastSpeechTime, socketRef,
                 audioQueue, wire, recVars, now, histVars>>
  /\ UNCHANGED <<appVars, sessVars>>

\* The close event of socket s runs onclose: either the second half of a
\* failure, or a clean close (by the server, or completing a local close).
SocketClose(s) ==
  /\ \/ dispatching = s
     \/ /\ Idle
        /\ readyState[s] \in {"OPEN", "CLOSING"}
        /\ s \notin mustFail
  /\ readyState' = [readyState EXCEPT ![s] = "CLOSED"]
  /\ onclose
  /\ dispatching' = NoSocket
  /\ UNCHANGED <<apiKey, realtimeTranscript, error, lastSpeechTime, audioQueue,
                 wire, mustFail, recVars, now, histVars>>
  /\ UNCHANGED <<appVars, sessVars>>

\* A caller invokes startRecording.
StartRecording ==
  /\ Idle
  /\ acquiring + liveRecorders + finalBlobs < MaxRecorders
  /\ startRecording
  /\ UNCHANGED <<dgVars, wsVars, isRecording, hasPermission, mediaRecorderRef,
                 streamRef, liveRecorders, finalBlobs, recorderInactive, now,
                 histVars>>
  /\ UNCHANGED <<appVars, sessVars>>

\* getUserMedia settles: the permission is granted or refused.
GetUserMediaSettled(granted) ==
  /\ Idle
  /\ acquiring > 0
  /\ acquiring' = acquiring - 1
  /\ IF granted
       THEN startRecordingGranted /\ UNCHANGED recorderError
       ELSE /\ startRecordingDenied
            /\ UNCHANGED <<streamRef, mediaRecorderRef, liveRecorders,
                           recorderInactive, isRecording>>
  /\ UNCHANGED <<dgVars, wsVars, finalBlobs, now, histVars>>
  /\ UNCHANGED sessVars
  /\ Render(TimerState, isRecordingRef, lastTranscriptRef)

\* getUserMedia resolves with a stream and the recorder then fails: the
\* MediaRecorder constructor throws, or its start does.
RecorderStartFails(constructed) ==
  /\ Idle
  /\ acquiring > 0
  /\ acquiring' = acquiring - 1
  /\ startRecordingFailed(constructed)
  /\ UNCHANGED <<liveRecorders, isRecording>>
  /\ UNCHANGED <<dgVars, wsVars, finalBlobs, now, histVars>>
  /\ UNCHANGED sessVars
  /\ Render(TimerState, isRecordingRef, lastTranscriptRef)

\* A caller invokes stopRecording.
StopRecording ==
  /\ Idle
  /\ stopRecording
  /\ UNCHANGED <<dgVars, wsVars, hasPermission, recorderError, acquiring, now,
                 histVars>>
  /\ UNCHANGED sessVars
  /\ Render(TimerState, isRecordingRef, lastTranscriptRef)

\* Time passes.
Tick ==
  /\ Idle
  /\ now < MaxTime
  /\ now' = now + 1
  /\ UNCHANGED <<dgVars, wsVars, recVars, histVars>>
  /\ UNCHANGED <<appVars, sessVars>>

\* The timers as a starting session finds them: those still pending were
\* scheduled before it.
Aged(tm) ==
  [id \in TimerIds |->
     IF tm[id] = NotPending THEN NotPending ELSE [tm[id] EXCEPT !.stale = TRUE]]

\* The user toggles recording (button or shortcut): toggleRecording of the
\* current render stops when isRecording is true and starts a session when
\* it is false.  At most maxRecorders captures are requested, recording or
\* stopping at once, and at most maxSockets sockets are built.
ToggleRecordingUpTo(maxRecorders, maxSockets) ==
  /\ Idle
  /\ IF isRecording
       THEN /\ stopRecordingAndCopy(TimerState, isRecording, autoCopyPaste,
                                    "toggle")
            /\ UNCHANGED <<apiKey, error, lastSpeechTime, audioQueue,
                           dispatching, hasPermission, recorderError, acquiring,
                           now, histVars, quiet>>
       ELSE /\ acquiring + liveRecorders + finalBlobs < maxRecorders
            /\ (socketRef = NoSocket /\ apiKey # "") => NextSocket <= maxSockets
            /\ finals' = <<>>
            /\ nEvents' = 0
            /\ nInterim' = 0
            /\ discarded' = (realtimeTranscript # <<>>)
            /\ quiet' = 0
            /\ nStops' = 0
            /\ stoppedBy' = "none"
            /\ copied' = <<>>
            /\ UNCHANGED <<apiKey, audioQueue, wire, mustFail, dispatching,
                           hasPermission, mediaRecorderRef, streamRef,
                           liveRecorders, finalBlobs, recorderInactive, now,
                           produced, passed, openedAt>>
            /\ startSession([ref |-> silenceTimerRef, timers |-> Aged(timers)])

ToggleRecording == ToggleRecordingUpTo(MaxRecorders, MaxSockets)

\* The user clears the transcription.
ClearTranscription ==
  /\ Idle
  /\ finals' = <<>>
  /\ nEvents' = 0
  /\ nInterim' = 0
  /\ discarded' = (realtimeTranscript # <<>>)
  /\ UNCHANGED <<apiKey, connectionState, error, socketRef, audioQueue, wsVars,
                 recVars, now, produced, passed, openedAt, quiet, nStops,
                 stoppedBy, copied>>
  /\ clearTranscription

\* updateSettings is called with the object `updates`, and App renders.
UpdateSettings(updates) ==
  /\ Idle
  /\ updateSettings(updates)
  /\ UNCHANGED <<dgVars, wsVars, recVars, now, histVars, quiet, nStops,
                 stoppedBy, copied>>
  /\ Render(TimerState, isRecordingRef, lastTranscriptRef)

\* The user picks another silence timeout in the settings panel.
ChangeSilenceTimeout(v) ==
  /\ v # silenceTimeout
  /\ UpdateSettings([silenceTimeout |-> v])

\* The user switches auto-copy in the settings panel.
ChangeAutoCopy == UpdateSettings([autoCopyPaste |-> ~autoCopyPaste])

\* resetSettings is called, and App renders.
ResetSettings ==
  /\ Idle
  /\ resetSettings
  /\ UNCHANGED <<dgVars, wsVars, recVars, now, histVars, quiet, nStops,
                 stoppedBy, copied>>
  /\ Render(TimerState, isRecordingRef, lastTranscriptRef)

\* The app is closed and started again while no session runs: useSettings
\* mounts with the defaults and its effect loads the stored item.
Remount ==
  /\ Idle
  /\ ~isRecording /\ ~isRecordingRef /\ acquiring = 0
  /\ socketRef = NoSocket /\ realtimeTranscript = <<>>
  /\ PendingTimers(timers) = {}
  /\ LET s == loadSettings(stored) IN
       /\ shortcutEnabled' = s.shortcutEnabled
       /\ shortcut' = s.shortcut
       /\ autoCopyPaste' = s.autoCopyPaste
       /\ silenceTimeout' = s.silenceTimeout
  /\ lastOp' = "mount"
  /\ UNCHANGED <<stored, expected>>
  /\ UNCHANGED <<dgVars, wsVars, recVars, now, histVars, appVars, quiet,
                 nStops, stoppedBy, copied>>

\* The timer id has elapsed: it is no longer pending and its callback runs.
TimerFires(id) ==
  /\ Idle
  /\ timers[id] # NotPending
  /\ timers[id].left = 0
  /\ UNCHANGED <<apiKey, error, lastSpeechTime, audioQueue, dispatching,
                 hasPermission, recorderError, acquiring, now, histVars, quiet>>
  /\ silenceTimerCallback(
       [ref |-> silenceTimerRef, timers |-> [timers EXCEPT ![id] = NotPending]],
       timers[id].rec, timers[id].copy)

\* One second passes; an elapsed timer fires before the next second does.
Elapse ==
  /\ Idle
  /\ \A id \in PendingTimers(timers) : timers[id].left > 0
  /\ timers' = [id \in TimerIds |->
                  IF timers[id] = NotPending THEN NotPending
                  ELSE [timers[id] EXCEPT !.left = @ - 1]]
  /\ now' = IF now < MaxTime THEN now + 1 ELSE now
  /\ quiet' = IF quiet < MaxSilenceTimeout THEN quiet + 1 ELSE quiet
  /\ UNCHANGED <<dgVars, wsVars, recVars, histVars, isRecordingRef,
                 lastTranscriptRef, silenceTimerRef, rescheduled,
                 silenceTimeout, nStops, stoppedBy, autoCopyPaste, copied,
                 setVars>>

\* ------------------------------------------------------------------ claims

\* The audio blobs sent on socket s, in order, without the control message.
IsAudio(m) == m # CloseStream
AudioOn(s) == SelectSeq(wire[s], IsAudio)

Positions(seq, c) == {i \in 1..Len(seq) : seq[i] = c}

\* The chunks sendAudio was given while the published state was connecting
\* and that no socket has been given yet.
PendingChunks ==
  {c \in 1..produced :
     /\ passed[c].st = "connecting"
     /\ \A s \in Sockets : Positions(wire[s], c) = {}}

\* The elements of a set of chunks in the order they were passed.
RECURSIVE InPassingOrder(_)
InPassingOrder(cs) ==
  IF cs = {} THEN <<>>
  ELSE LET first == CHOOSE c \in cs : \A d \in cs : c <= d
       IN <<first>> \o InPassingOrder(cs \ {first})

\* C1: when a handshake completes and the published state becomes connected,
\* the chunks passed to sendAudio while it was connecting are sent in that
\* step, each once and in the order they were passed, as the first data on
\* the opening socket, so ahead of every chunk passed after the handshake; no
\* chunk is ever sent twice and every wire carries its chunks in passing order.
C1_QueuedChunksFlushedInOrder ==
  [][ /\ \A s \in Sockets :
           SocketOpen(s) =>
             LET pending == PendingChunks
                 IsPending(c) == c \in pending
             IN /\ wire[s] = <<>>
                /\ SelectSeq(wire'[s], IsPending) = InPassingOrder(pending)
                /\ \A t \in Sockets \ {s} : wire'[t] = wire[t]
      /\ \A c \in 1..produced :
           /\ Cardinality({s \in Sockets : Positions(wire[s], c) # {}}) <= 1
           /\ \A s \in Sockets : Cardinality(Positions(wire[s], c)) <= 1
      /\ \A s \in Sockets : \A i, j \in 1..Len(AudioOn(s)) :
           i < j => AudioOn(s)[i] < AudioOn(s)[j] ]_vars

\* C1 witness: a socket's wire starts with two chunks that were passed while
\* the state was connecting and goes on with one passed while it was connected.
C1_Witness ==
  \E s \in Sockets :
    /\ openedAt[s] = 2
    /\ Len(AudioOn(s)) >= 3
    /\ passed[AudioOn(s)[1]].st = "connecting"
    /\ passed[AudioOn(s)[2]].st = "connecting"
    /\ passed[AudioOn(s)[3]].st = "connected"

\* C2: the pending audio queue is empty whenever the connection state is
\* closed or connected.
C2_QueueEmptyWhenClosedOrConnected ==
  connectionState \in {"closed", "connected"} => audioQueue = <<>>

\* What sendAudio consults agrees with the published state.
HandleAgrees ==
  /\ connectionState = "connected" =>
       socketRef # NoSocket /\ readyState[socketRef] = "OPEN"
  /\ connectionState = "connecting" =>
       socketRef # NoSocket /\ readyState[socketRef] = "CONNECTING"

\* C3: a chunk passed to sendAudio while the published state is connected is
\* appended to the wire of the held socket, one passed while it is connecting
\* is appended to the pending queue, and between handlers the published state
\* agrees with the socket handle sendAudio consults.
C3_SendFollowsPublishedState ==
  [][ /\ (SendAudio /\ connectionState = "connected") =>
           /\ socketRef # NoSocket
           /\ wire' = [wire EXCEPT ![socketRef] = Append(@, produced')]
           /\ audioQueue' = audioQueue
      /\ (SendAudio /\ connectionState = "connecting") =>
           /\ audioQueue' = Append(audioQueue, produced')
           /\ wire' = wire
      /\ Idle => HandleAgrees ]_vars

\* C4: a blob handed to sendAudio while the published state is closed or
\* error is dropped: nothing is sent or queued, state and error message stay,
\* and the recorder goes on recording.
C4_SendDropsWhenClosedOrError ==
  [][ (DataAvailable(1) /\ connectionState \in {"closed", "error"}) =>
        /\ wire' = wire
        /\ audioQueue' = audioQueue
        /\ connectionState' = connectionState
        /\ error' = error
        /\ socketRef' = socketRef
        /\ isRecording' = isRecording
        /\ liveRecorders' = liveRecorders /\ liveRecorders' > 0 ]_vars

\* C4 witness: the recorder is recording and a blob was handed to sendAudio
\* while the published state was error.
C4_Witness ==
  /\ isRecording /\ liveRecorders > 0
  /\ \E c \in 1..produced : passed[c].st = "error"

LiveSockets == {s \in Sockets : readyState[s] \in {"CONNECTING", "OPEN"}}

\* C5: a connect call made while the published state is connecting or
\* connected changes nothing and builds no socket, and at most one socket is
\* connecting or open at any time.
C5_ConnectIsNoOpWhileConnectingOrConnected ==
  [][ /\ (Connect(WideSockets)
            /\ connectionState \in {"connecting", "connected"}) =>
           UNCHANGED <<connectionState, error, audioQueue, socketRef, readyState>>
      /\ Cardinality(LiveSockets) <= 1 ]_vars

\* C6: the published state becomes connecting only by a connect call, becomes
\* connected only from connecting by a handshake success, and leaves error
\* only to closed, by a close event or a disconnect.
C6_OnlySpecifiedTransitions ==
  [][ /\ (connectionState' = "connecting" /\ connectionState # "connecting") =>
           Connect(MaxSockets)
      /\ (connectionState' = "connected" /\ connectionState # "connected") =>
           /\ connectionState = "connecting"
           /\ \E s \in Sockets : SocketOpen(s)
      /\ (connectionState = "error" /\ connectionState' # "error") =>
           /\ connectionState' = "closed"
           /\ Disconnect \/ \E s \in Sockets : SocketClose(s) ]_vars

HasCloseStream(s) == \E i \in 1..Len(wire[s]) : wire[s][i] = CloseStream

\* C7: a disconnect call made while the published state is connected appends
\* exactly one CloseStream to one socket's wire and closes that socket, a
\* disconnect call in any other state sends nothing, and nothing is sent on a
\* socket after its CloseStream.
C7_CloseStreamOnceWhenConnected ==
  [][ /\ (Disconnect /\ connectionState = "connected") =>
           \E s \in Sockets :
             /\ wire' = [wire EXCEPT ![s] = Append(@, CloseStream)]
             /\ readyState[s] = "OPEN" /\ readyState'[s] = "CLOSING"
      /\ (Disconnect /\ connectionState # "connected") => wire' = wire
      /\ \A s \in Sockets : HasCloseStream(s) => wire'[s] = wire[s] ]_vars

\* C8: whatever the state, disconnectFromDeepgram leaves the published state
\* closed and the handle cleared, and applying it again to its own result
\* changes nothing (so nothing more is sent).
C8_DisconnectClosesAndIsIdempotent ==
  Idle =>
    LET once == disconnectFromDeepgram(ConnVars)
        twice == disconnectFromDeepgram(once)
    IN /\ once.connectionState = "closed"
       /\ once.socketRef = NoSocket
       /\ twice = once

\* C8 witness: disconnect has acted on an open socket (its wire ends with
\* CloseStream and it is closing), and on a connecting one.
C8_Witness ==
  /\ connectionState = "closed" /\ socketRef = NoSocket
  /\ \E s \in Sockets :
       /\ readyState[s] = "CLOSING"
       /\ wire[s] # <<>> /\ wire[s][Len(wire[s])] = CloseStream
  /\ \E s \in Sockets : readyState[s] = "CLOSING" /\ s \in mustFail

\* t1, t2, ... joined by single spaces.
RECURSIVE JoinWithSpaces(_)
JoinWithSpaces(texts) ==
  IF texts = <<>> THEN <<>>
  ELSE IF Len(texts) = 1 THEN texts[1]
  ELSE texts[1] \o <<" ">> \o JoinWithSpaces(Tail(texts))

\* C9: the transcript is the texts of the final events with a non-empty text
\* received since the last reset, joined by single spaces in arrival order,
\* whatever interim events came in between.
C9_TranscriptIsFinalsJoined ==
  realtimeTranscript = JoinWithSpaces(finals)

\* C9 witness: two final events and an interim event have arrived.
C9_Witness ==
  Len(finals) >= 2 /\ nInterim >= 1 /\ finals[1] # finals[2]

\* C10: an event that is not final leaves the transcript unchanged.
C10_InterimLeavesTranscript ==
  [][ \A s \in Sockets, m \in Messages :
        (SocketMessage(s, m) /\ ~m.is_final) =>
          realtimeTranscript' = realtimeTranscript ]_vars

\* C10 witness: an interim event with a text has arrived and the transcript
\* holds a final one.
C10_Witness ==
  nInterim >= 1 /\ realtimeTranscript # <<>>

\* A text with no character other than whitespace.
IsBlank(t) == \A i \in 1..Len(t) : t[i] = " "

\* C11: a transcript event sets lastSpeechTime to the current time exactly
\* when its text has a character other than whitespace, for final and interim
\* events alike; every other message leaves it unchanged; and lastSpeechTime
\* never decreases.
C11_SpeechTimeSetByNonBlankEvents ==
  [][ /\ \A s \in Sockets, m \in Messages :
           SocketMessage(s, m) =>
             lastSpeechTime' =
               IF m.kind = "results" /\ ~IsBlank(m.transcript)
                 THEN now ELSE lastSpeechTime
      /\ lastSpeechTime' >= lastSpeechTime ]_vars

\* C11 witness: since the last reset only interim events have arrived, and
\* lastSpeechTime is the current time, later than the time of mount.
C11_Witness ==
  /\ nInterim >= 1 /\ nEvents = nInterim /\ realtimeTranscript = <<>>
  /\ lastSpeechTime = now /\ now > 0

\* C12: a message that changes the transcript is final, has a non-blank text
\* and sets lastSpeechTime to the current time.
C12_AppendOnlyWithSpeechTimeRefresh ==
  [][ \A s \in Sockets, m \in Messages :
        (SocketMessage(s, m) /\ realtimeTranscript' # realtimeTranscript) =>
          /\ m.is_final
          /\ ~IsBlank(m.transcript)
          /\ lastSpeechTime' = now ]_vars

\* A step that calls resetTranscript: by a caller of the hook, by
\* clearTranscription, or by toggleRecording starting a session.
ResetStep ==
  \/ ResetTranscript
  \/ ClearTranscription
  \/ ToggleRecording /\ ~isRecording

\* The transcript of an accumulator that starts empty and is given the final
\* texts in order.
RECURSIVE FreshRun(_)
FreshRun(texts) ==
  IF texts = <<>> THEN <<>>
  ELSE AppendTranscript(FreshRun(SubSeq(texts, 1, Len(texts) - 1)),
                        texts[Len(texts)])

\* C13: a reset leaves the transcript as it is at mount, and after every
\* step the transcript is what an accumulator that starts empty yields for
\* the final texts received since the last reset.
C13_ResetEqualsFreshAccumulator ==
  [][ /\ ResetStep => realtimeTranscript' = <<>>
      /\ realtimeTranscript' = FreshRun(finals') ]_vars

\* C13 witness: a reset cleared a non-empty transcript and two final texts
\* have arrived since.
C13_Witness ==
  discarded /\ Len(finals) >= 2 /\ realtimeTranscript # <<>>

IsPrefix(a, b) == Len(a) <= Len(b) /\ SubSeq(b, 1, Len(a)) = a

\* C14: every step that is not a reset leaves the old transcript as a prefix
\* of the new one, whether it is a message, a socket event, a stop, a timer,
\* a settings change or the passing of time.
C14_TranscriptOnlyGrows ==
  [][ ResetStep \/ IsPrefix(realtimeTranscript, realtimeTranscript') ]_vars

\* C14 witness: a transcript of two final texts has outlived the auto-stop of
\* its session and the closing of the connection.
C14_Witness ==
  /\ stoppedBy = "timer" /\ connectionState = "closed"
  /\ Len(finals) = 2 /\ Len(realtimeTranscript) = 3

\* C15: toggleRecording starting a session leaves the transcript empty and
\* lastSpeechTime at the current time, and whenever the published state
\* enters connecting the transcript is empty.
C15_SessionStartResetsBeforeConnect ==
  [][ /\ (ToggleRecording /\ ~isRecording) =>
           /\ realtimeTranscript' = <<>>
           /\ lastTranscriptRef' = <<>>
           /\ lastSpeechTime' = now
      /\ (connectionState' = "connecting" /\ connectionState # "connecting") =>
           realtimeTranscript' = <<>> ]_vars

\* C15 witness: a session start has cleared a non-empty transcript, moved
\* lastSpeechTime forward, and its connection is connecting.
C15_Witness ==
  /\ discarded /\ nEvents = 0
  /\ isRecordingRef /\ connectionState = "connecting"
  /\ realtimeTranscript = <<>> /\ lastSpeechTime = now /\ now > 0

\* C16: at most one silence timer is pending.
C16_AtMostOneSilenceTimer ==
  Cardinality(PendingTimers(timers)) <= 1

\* C16 witness: a timer was scheduled while another was pending, and one
\* timer is pending.
C16_Witness ==
  rescheduled /\ Cardinality(PendingTimers(timers)) = 1

\* C17: a timer that elapses while the silence timeout is 0 does not stop
\* the session.
C17_NoAutoStopWhileTimeoutZero ==
  [][ \A id \in TimerIds :
        (TimerFires(id) /\ silenceTimeout = 0) =>
          nStops' = nStops /\ isRecordingRef' = isRecordingRef ]_vars

\* C18: with a positive silence timeout and the app recording, a transcript
\* event with a non-blank text, final or interim, leaves exactly one timer
\* pending, due a full timeout later; and a timer stops the session only when
\* a full timeout has passed since the last such event.
C18_SpeechMovesFirePoint ==
  [][ /\ \A s \in Sockets, m \in Messages :
           ( /\ SocketMessage(s, m)
             /\ m.kind = "results" /\ ~IsBlank(m.transcript)
             /\ isRecordingRef /\ silenceTimeout > 0 ) =>
             \E id \in TimerIds :
               /\ PendingTimers(timers') = {id}
               /\ timers'[id].left = silenceTimeout
      /\ \A id \in TimerIds :
           (TimerFires(id) /\ nStops' > nStops) => quiet >= silenceTimeout ]_vars

\* A session that is recording with a positive timeout and holds speech.
Armed == isRecordingRef /\ silenceTimeout > 0 /\ realtimeTranscript # <<>>

C20_TimerStopsOnlyRecordingWithTranscript ==
  [][ \A id \in TimerIds :
        TimerFires(id) =>
          IF isRecordingRef /\ realtimeTranscript # <<>>
            THEN nStops' = nStops + 1 /\ ~isRecordingRef' /\ stoppedBy' = "timer"
            ELSE UNCHANGED <<dgVars, wsVars, recVars, now, histVars,
                             isRecordingRef, lastTranscriptRef, silenceTimerRef,
                             rescheduled, sessVars>> ]_vars

\* C20 witness: the timer the ref names has elapsed without stopping the
\* session, which is recording and has an empty transcript.
C20_Witness ==
  /\ isRecordingRef /\ isRecording /\ realtimeTranscript = <<>>
  /\ silenceTimerRef # NoTimer /\ timers[silenceTimerRef] = NotPending

\* C25: when getUserMedia is refused the session does not start: the recorder
\* error is set, isRecording and the app's isRecordingRef are false, and the
\* connection is neither connecting nor connected.
C25_FailedStartLeavesNoSession ==
  [][ GetUserMediaSettled(FALSE) =>
        /\ recorderError' = MicErrorMsg
        /\ ~isRecording'
        /\ ~isRecordingRef'
        /\ connectionState' \notin {"connecting", "connected"} ]_vars

\* C26: a failed connection (the error event of a socket, or the constructor
\* throwing) sets the state to error and records a message; a recorded message
\* changes only when a connect attempt starts, and a starting attempt clears it.
C26_FailureRecordedUntilNextConnect ==
  [][ /\ \A s \in Sockets :
           SocketError(s) => connectionState' = "error" /\ error' = ConnFailedMsg
      /\ (Connect(MaxSockets) /\ socketRef = NoSocket /\ apiKey = "") =>
           connectionState' = "error" /\ error' = CtorErrorMsg
      /\ (error # NoError /\ error' # error) =>
           Connect(MaxSockets) /\ socketRef = NoSocket
      /\ (socketRef = NoSocket /\ socketRef' # NoSocket) => error' = NoError ]_vars

\* C26 witness: the first socket failed before its handshake, which recorded
\* the message, and the connect that built the second socket cleared it.
C26_Witness ==
  /\ readyState[1] = "CLOSED"
  /\ openedAt[1] = -1
  /\ socketRef = 2
  /\ error = NoError

\* C27: when the server closes the session's open socket while the session
\* is recording, an error message is set.
C27_ServerCloseInSessionSetsError ==
  [][ \A s \in Sockets :
        ( /\ SocketClose(s)
          /\ readyState[s] = "OPEN"
          /\ socketRef = s
          /\ isRecordingRef
          /\ isRecording ) => error' # NoError ]_vars

\* C28: the close event of an open socket (a close by the server) sets the
\* state to closed and clears the handle, which is the state and handle a local
\* disconnect would leave; while the handle is clear a chunk given to
\* sendAudio reaches no socket and no queue, and only a connect sets the handle.
C28_ServerCloseDropsLikeDisconnect ==
  [][ /\ \A s \in Sockets :
           (SocketClose(s) /\ readyState[s] = "OPEN") =>
             LET d == disconnectFromDeepgram(ConnVars)
             IN /\ connectionState' = "closed"
                /\ socketRef' = NoSocket
                /\ connectionState' = d.connectionState
                /\ socketRef' = d.socketRef
      /\ (SendAudio /\ socketRef = NoSocket) => UNCHANGED <<wire, audioQueue>>
      /\ (socketRef = NoSocket /\ socketRef' # NoSocket) =>
           Connect(MaxSockets) ]_vars

\* C28 witness: the only socket built was opened and then closed by the server
\* (no error event, no CloseStream sent), and a chunk passed after its
\* handshake found the hook closed and was dropped.
C28_Witness ==
  /\ readyState[1] = "CLOSED"
  /\ readyState[2] = "NONE"
  /\ openedAt[1] >= 0
  /\ ~HasCloseStream(1)
  /\ error = NoError
  /\ connectionState = "closed"
  /\ socketRef = NoSocket
  /\ \E c \in 1..produced :
       /\ c > openedAt[1]
       /\ passed[c].st = "closed"
       /\ Positions(wire[1], c) = {}
       /\ Positions(audioQueue, c) = {}

\* C29: a delivered message that is not JSON, or carries no transcript (one
\* counted neither as a final nor as an interim event), changes neither the
\* transcript, the last speech time, the connection state, the error nor the
\* recording state, and leaves every socket as it is, so that the messages
\* that follow are delivered and handled as before.
C29_NoiseMessageChangesNothing ==
  [][ (nEvents' = nEvents + 1 /\ finals' = finals /\ nInterim' = nInterim) =>
        UNCHANGED <<realtimeTranscript, lastSpeechTime, connectionState, error,
                    socketRef, audioQueue, readyState, isRecording,
                    isRecordingRef>> ]_vars

\* C29 witness: three messages were delivered since the reset, the finals "a"
\* and "b" and one without a transcript; the transcript is "a b" and the last
\* speech time is that of a final.
C29_Witness ==
  /\ nEvents = 3
  /\ finals = << <<"a">>, <<"b">> >>
  /\ nInterim = 0
  /\ realtimeTranscript = <<"a", " ", "b">>
  /\ lastSpeechTime = 1

\* C30: the error event and the close event of a socket leave the recorder as
\* it is, and the connection enters connecting, and a socket is built, only
\* in a step in which the user starts a session.
C30_NoReconnectCaptureContinues ==
  [][ /\ \A s \in Sockets :
           (SocketError(s) \/ SocketClose(s)) =>
             UNCHANGED <<recVars, isRecordingRef, produced>>
      /\ ( \/ connectionState' = "connecting" /\ connectionState # "connecting"
           \/ NextSocket' # NextSocket ) =>
           ToggleRecording /\ ~isRecording ]_vars

\* C30 witness: a session's connection failed and closed, the message is set,
\* no socket is held or connecting, the recorder is still recording and has
\* handed on a blob since, which found the hook closed.
C30_Witness ==
  /\ isRecordingRef
  /\ isRecording
  /\ liveRecorders > 0
  /\ error = ConnFailedMsg
  /\ connectionState = "closed"
  /\ socketRef = NoSocket
  /\ \A s \in Sockets : readyState[s] \in {"NONE", "CLOSED"}
  /\ produced > 0
  /\ passed[produced].st = "closed"

\* C21: no silence timer is pending after a step that stops the session (a
\* run of stopRecordingAndCopy past its guard, or the failure of the
\* session's connection), and a timer that fires was scheduled since the
\* latest start.
C21_NoTimerOutlivesItsSession ==
  [][ /\ nStops' = nStops + 1 => PendingTimers(timers') = {}
      /\ \A s \in Sockets :
           (SocketClose(s) /\ dispatching = s /\ socketRef = s /\ isRecordingRef) =>
             PendingTimers(timers') = {}
      /\ \A id \in TimerIds : TimerFires(id) => ~timers[id].stale ]_vars

\* C22: a stop of a session whose recorder is recording clears the silence
\* timer, stops the recorder and releases the stream, and disconnects; and
\* once a session was stopped no blob is handed on until the next start.
C22_NoChunkAfterStop ==
  [][ /\ (nStops' = nStops + 1 /\ mediaRecorderRef /\ ~recorderInactive) =>
           /\ silenceTimerRef' = NoTimer
           /\ ~mediaRecorderRef' /\ ~streamRef' /\ liveRecorders' = liveRecorders - 1
           /\ connectionState' = "closed" /\ socketRef' = NoSocket
      /\ produced' = produced + 1 => nStops = 0 ]_vars

\* C23: every run of stopRecordingAndCopy past its guard, also one whose
\* stopRecording throws, ends with the handle cleared, the held socket closed
\* or closing, and the state closed.
C23_StopAlwaysDisconnects ==
  [][ nStops' = nStops + 1 =>
        /\ connectionState' = "closed"
        /\ socketRef' = NoSocket
        /\ socketRef # NoSocket =>
             readyState'[socketRef] \in {"CLOSING", "CLOSED"} ]_vars

\* C24: at no time do more than one capture hold or await the microphone,
\* and getUserMedia is called only when none does.
C24_AtMostOneCapture ==
  [][ /\ acquiring' + liveRecorders' <= 1
      /\ acquiring' > acquiring => acquiring + liveRecorders = 0 ]_vars

\* C34: the close event of a socket that is no longer the hook's handle, while
\* the hook holds a newer socket, leaves the handle and the published
\* connection state as they are.
C34_StaleCloseLeavesNewConnection ==
  [][ \A s \in Sockets :
        (SocketClose(s) /\ socketRef # NoSocket /\ socketRef # s) =>
          UNCHANGED <<socketRef, connectionState>> ]_vars

\* C35: every chunk sent on a socket was given to sendAudio while that socket
\* was the hook's handle, so a chunk queued for a connection that never
\* opened is not sent on a later one.
C35_ChunksStayWithTheirConnection ==
  \A s \in Sockets : \A c \in 1..produced :
    Positions(wire[s], c) # {} => passed[c].sock = s

\* C36: after a run of stopRecordingAndCopy past its guard no socket is
\* connecting or open.
C36_StopLeavesNoSocketOpen ==
  [][ nStops' = nStops + 1 =>
        \A s \in Sockets : readyState'[s] \notin {"CONNECTING", "OPEN"} ]_vars

\* The one transcript the runs with a third session are given.
LateMessages ==
  { [kind |-> "results", transcript |-> <<"a">>, is_final |-> TRUE] }

\* C37: a message that changes the transcript was delivered by the socket of
\* the latest session, which is the newest socket built.
C37_OnlyCurrentTransportAppends ==
  [][ \A s \in Sockets : \A m \in LateMessages :
        (SocketMessage(s, m) /\ realtimeTranscript' # realtimeTranscript) =>
          s = NextSocket - 1 ]_vars

\* C31: the error shown is the one raised last: after a step that raises the
\* connection's error the shown error is that message, and after a step that
\* raises the recorder's error it is the recorder's.
C31_LatestErrorShown ==
  [][ /\ \A s \in Sockets : SocketError(s) => activeError' = error'
      /\ GetUserMediaSettled(FALSE) => activeError' = recorderError' ]_vars

\* C32: a step that stops the session writes the clipboard exactly once with
\* the transcript as of the stop when auto-copy is on and that transcript is
\* not empty, and does not write it otherwise; no other step writes it.
C32_StopCopiesTranscriptOnce ==
  [][ /\ nStops' = nStops + 1 =>
           copied' = IF autoCopyPaste /\ realtimeTranscript # <<>>
                       THEN Append(copied, realtimeTranscript)
                       ELSE copied
      /\ nStops' # nStops + 1 => copied' \in {copied, <<>>} ]_vars

\* The defaults as documented: shortcut enabled, Ctrl+Shift+R, auto-copy off,
\* silence timeout 2.
DocumentedDefaults ==
  [shortcutEnabled |-> TRUE, shortcut |-> "Ctrl+Shift+R",
   autoCopyPaste |-> FALSE, silenceTimeout |-> 2]

C38_FailedStartReleasesDevice ==
  [][ (acquiring' = acquiring - 1 /\ recorderError' = MicErrorMsg
         /\ ~isRecording') => ~streamRef' ]_vars

\* ---------------------------------------------------------- specifications

\* The connection and the outbound path: a caller connects, disconnects and
\* sends blobs; the browser opens, fails and closes sockets.
Next ==
  \/ Connect(MaxSockets)
  \/ Disconnect
  \/ SendAudio
  \/ \E s \in Sockets : SocketOpen(s)
  \/ \E s \in Sockets : SocketError(s)
  \/ \E s \in Sockets : SocketClose(s)

Spec == Init /\ [][Next]_vars

\* The same with one more reconnect.
NextReconnect ==
  \/ Connect(WideSockets)
  \/ Disconnect
  \/ SendAudio
  \/ \E s \in Sockets : SocketOpen(s)
  \/ \E s \in Sockets : SocketError(s)
  \/ \E s \in Sockets : SocketClose(s)

SpecReconnect == Init /\ [][NextReconnect]_vars

\* The connection fed by the recorder, as App wires them: the blobs come from
\* a recording MediaRecorder through handleAudioData.
NextCapture ==
  \/ Connect(MaxSockets)
  \/ Disconnect
  \/ StartRecording
  \/ \E granted \in BOOLEAN : GetUserMediaSettled(granted)
  \/ StopRecording
  \/ \E size \in {0, 1} : DataAvailable(size)
  \/ \E size \in {0, 1} : RecorderStopped(size)
  \/ \E s \in Sockets : SocketOpen(s)
  \/ \E s \in Sockets : SocketError(s)
  \/ \E s \in Sockets : SocketClose(s)

SpecCapture == Init /\ [][NextCapture]_vars

\* The connection and the inbound path: a caller connects, disconnects and
\* resets; the browser delivers messages on open sockets; time passes.
NextTranscript ==
  \/ Connect(MaxSockets)
  \/ Disconnect
  \/ ResetTranscript
  \/ \E s \in Sockets : SocketOpen(s)
  \/ \E s \in Sockets, m \in Messages : SocketMessage(s, m)
  \/ \E s \in Sockets : SocketError(s)
  \/ \E s \in Sockets : SocketClose(s)
  \/ Tick

SpecTranscript == Init /\ [][NextTranscript]_vars

\* The transcripts a session is given: a final and an interim text, and a
\* final text of whitespace only.
SessionMessages ==
  { [kind |-> "results", transcript |-> <<"a">>, is_final |-> TRUE],
    [kind |-> "results", transcript |-> <<"a">>, is_final |-> FALSE],
    [kind |-> "results", transcript |-> <<" ">>, is_final |-> TRUE] }

\* The app as the user drives it: recording is toggled, the transcription
\* cleared and the silence timeout changed; the browser settles getUserMedia,
\* opens, fails and closes sockets, delivers messages and fires timers.
NextSession ==
  \/ ToggleRecording
  \/ ClearTranscription
  \/ \E v \in SilenceTimeouts : ChangeSilenceTimeout(v)
  \/ \E granted \in BOOLEAN : GetUserMediaSettled(granted)
  \/ RecorderStopped(0)
  \/ \E s \in Sockets : SocketOpen(s)
  \/ \E s \in Sockets, m \in SessionMessages : SocketMessage(s, m)
  \/ \E s \in Sockets : SocketError(s)
  \/ \E s \in Sockets : SocketClose(s)
  \/ \E id \in TimerIds : TimerFires(id)
  \/ Elapse

SpecSession == Init /\ [][NextSession]_vars

\* A session with its audio: the recorder's blobs reach the connection, a
\* stopped recorder delivers its last blob, and the microphone can go away
\* under a recording session.
NextStop ==
  \/ ToggleRecording
  \/ \E granted \in BOOLEAN : GetUserMediaSettled(granted)
  \/ \E size \in {0, 1} : DataAvailable(size)
  \/ \E size \in {0, 1} : RecorderStopped(size)
  \/ RecorderEnded
  \/ \E s \in Sockets : SocketOpen(s)
  \/ \E s \in Sockets : SocketError(s)
  \/ \E s \in Sockets : SocketClose(s)

SpecStop == Init /\ [][NextStop]_vars

\* One more capture than MaxRecorders exists for the runs in which the user
\* toggles again before getUserMedia has settled.
WideRecorders == MaxRecorders + 1

\* The app when the user toggles faster than the permission prompt settles.
NextOverlap ==
  \/ ToggleRecordingUpTo(WideRecorders, MaxSockets)
  \/ \E granted \in BOOLEAN : GetUserMediaSettled(granted)
  \/ RecorderStopped(0)
  \/ \E s \in Sockets : SocketOpen(s)
  \/ \E s \in Sockets : SocketClose(s)

SpecOverlap == Init /\ [][NextOverlap]_vars

\* The app over three sessions, with the sockets of earlier sessions still
\* delivering their events.
NextLate ==
  \/ ToggleRecordingUpTo(MaxRecorders, WideSockets)
  \/ \E granted \in BOOLEAN : GetUserMediaSettled(granted)
  \/ RecorderStopped(0)
  \/ \E s \in Sockets : SocketOpen(s)
  \/ \E s \in Sockets, m \in LateMessages : SocketMessage(s, m)
  \/ \E s \in Sockets : SocketError(s)
  \/ \E s \in Sockets : SocketClose(s)

SpecLate == Init /\ [][NextLate]_vars

\* The app with auto-copy switched on and off and the silence timeout
\* changed, between and during sessions.
NextCopy ==
  \/ ToggleRecording
  \/ ChangeAutoCopy
  \/ \E v \in SilenceTimeouts : ChangeSilenceTimeout(v)
  \/ \E granted \in BOOLEAN : GetUserMediaSettled(granted)
  \/ RecorderStopped(0)
  \/ \E s \in Sockets : SocketOpen(s)
  \/ \E s \in Sockets, m \in LateMessages : SocketMessage(s, m)
  \/ \E s \in Sockets : SocketClose(s)
  \/ \E id \in TimerIds : TimerFires(id)
  \/ Elapse

SpecCopy == Init /\ [][NextCopy]_vars

\* The settings alone: they are updated, reset and loaded again by a fresh
\* mount, from the first mount after the install on.
NextSettings ==
  \/ \E b \in BOOLEAN : UpdateSettings([shortcutEnabled |-> b])
  \/ \E k \in Shortcuts : UpdateSettings([shortcut |-> k])
  \/ \E b \in BOOLEAN : UpdateSettings([autoCopyPaste |-> b])
  \/ \E t \in SelectOptions : UpdateSettings([silenceTimeout |-> t])
  \/ \E b \in BOOLEAN, t \in SelectOptions :
       UpdateSettings([autoCopyPaste |-> b, silenceTimeout |-> t])
  \/ ResetSettings
  \/ Remount

SpecSettings == InitSettings /\ [][NextSettings]_vars

\* A session whose capture start can fail after the stream was acquired.
NextDevice ==
  \/ ToggleRecording
  \/ \E granted \in BOOLEAN : GetUserMediaSettled(granted)
  \/ \E constructed \in BOOLEAN : RecorderStartFails(constructed)
  \/ \E size \in {0, 1} : DataAvailable(size)
  \/ \E size \in {0, 1} : RecorderStopped(size)
  \/ \E s \in Sockets : SocketOpen(s)
  \/ \E s \in Sockets : SocketError(s)
  \/ \E s \in Sockets : SocketClose(s)

SpecDevice == Init /\ [][NextDevice]_vars

\* The app with the silence timeout left as it is.  Time passes and elapsed
\* timers fire; the close event of a failed socket follows its error event.
NextWatchdog ==
  \/ ToggleRecording
  \/ ClearTranscription
  \/ \E granted \in BOOLEAN : GetUserMediaSettled(granted)
  \/ RecorderStopped(0)
  \/ \E s \in Sockets : SocketOpen(s)
  \/ \E s \in Sockets, m \in SessionMessages : SocketMessage(s, m)
  \/ \E s \in Sockets : SocketError(s)
  \/ \E s \in Sockets : SocketClose(s)
  \/ \E id \in TimerIds : TimerFires(id)
  \/ Elapse

SpecWatchdog ==
  /\ Init
  /\ [][NextWatchdog]_vars
  /\ WF_vars(Elapse)
  /\ WF_vars(\E id \in TimerIds : TimerFires(id))
  /\ WF_vars(\E s \in Sockets : dispatching = s /\ SocketClose(s))

====
